---------------------------- MODULE Spec2Model ----------------------------
(***************************************************************************)
(* Model of pkg/eks/api.go: provider construction (New, newSession,        *)
(* checkAuth), AMI resolution (ResolveAMI), availability-zone selection    *)
(* (SetAvailabilityZones) and local-zone validation (ValidateLocalZones).  *)
(*                                                                         *)
(* The four groups of operations share no state, so each is checked under  *)
(* a specification of its own: SpecNew, SpecAMI, SpecAZ, SpecLZ.           *)
(***************************************************************************)
EXTENDS Naturals, Sequences, FiniteSets

VARIABLES
    \* ---- New / newSession / checkAuth ----
    pc,            \* position inside New
    specRegion,    \* spec.Region (ProviderConfig, shared by pointer with ProviderServices)
    region0,       \* spec.Region as it was when New was called
    envRegion,     \* region the SDK resolves from the environment / shared config ("" = none)
    cacheEnv,      \* EksctlGlobalEnableCachingEnvName is set to a non-empty value
    session,       \* the *session.Session built by newSession, or NoSession
    depth,         \* number of recursive re-entries of newSession
    cacheTouched,  \* the credential cache package was called
    warned,        \* logger.Warning("Failed to use cached provider: ...") was issued
    Status,        \* c.Status, or NoStatus
    stsOut,        \* response of STS GetCallerIdentity, or NoValue before the call
    authResult,    \* "pending" | "ok" | "err": what checkAuth returned
    KubeProvider,  \* c.KubeProvider, or NoKubeProvider
    newRet,        \* what New returned: "none" | "ok" | an error kind
    newProvider,   \* the *ClusterProvider New returned: "none" | "nil" | "c"
    \* ---- ResolveAMI ----
    ng,            \* np.BaseNodeGroup(): [AMI, AMIFamily, InstanceType]
    amiBefore,     \* ng.AMI when the last ResolveAMI call started
    amiIn,         \* arguments and resolver answers of the last ResolveAMI call
    amiCalls,      \* sub-resolvers invoked by the last call, in order
    amiOut,        \* what resolver.Resolve returned to the last call ("err", "" or an id)
    amiRet,        \* what the last ResolveAMI call returned ("none" before any call)
    amiErr,        \* the fields carried by the returned error
    \* ---- SetAvailabilityZones ----
    azs,           \* spec.AvailabilityZones
    azBefore,      \* spec.AvailabilityZones when the last call started
    azGiven,       \* the explicit zone list of the last call
    azDisc,        \* the az.GetAvailabilityZones call of the last call and its answer
    azRet,         \* what the last call returned ("none" before any call)
    azErrZones,    \* the zones carried by ErrTooFewAvailabilityZones
    \* ---- ValidateLocalZones ----
    localZones,    \* the caller's localZones list
    lzRequested,   \* localZones as passed to the last call
    lzOutput,      \* the DescribeAvailabilityZones answer of the last call
    lzRet,         \* what the last call returned ("none" before any call)
    lzErr          \* the counts and the zone named by the returned error

varsNew == <<pc, specRegion, region0, envRegion, cacheEnv, session, depth,
             cacheTouched, warned, Status, stsOut, authResult, KubeProvider,
             newRet, newProvider>>

varsAMI == <<ng, amiBefore, amiIn, amiCalls, amiOut, amiRet, amiErr>>

varsAZ == <<azs, azBefore, azGiven, azDisc, azRet, azErrZones>>

varsLZ == <<localZones, lzRequested, lzOutput, lzRet, lzErr>>

vars == <<varsNew, varsAMI, varsAZ, varsLZ>>

\* What the operations of one group leave alone: the state of the other groups.
notNew == <<varsAMI, varsAZ, varsLZ>>

notAMI == <<varsNew, varsAZ, varsLZ>>

notAZ == <<varsNew, varsAMI, varsLZ>>

notLZ == <<varsNew, varsAMI, varsAZ>>

NoValue == "<none>"

\* A nil *session.Session, a nil c.Status and an unset c.KubeProvider.
NoSession == [Config |-> FALSE, Region |-> "", Credentials |-> ""]

NoStatus == [set |-> FALSE, IAMRoleARN |-> "", SessionCreds |-> ""]

NoKubeProvider == [set |-> FALSE, RoleARN |-> ""]

\* ---------------------------------------------------------------------------
\* Bounds and value sets
\* ---------------------------------------------------------------------------

\* newSession has no recursion limit of its own; the guard caps the counter.
MaxDepth == 3

DefaultRegion == "us-west-2"

Regions == {"us-west-2", "eu-west-1"}

MaybeRegion == Regions \cup {""}

Arns == {"arn:aws:iam::1:role/a", "arn:aws:iam::1:user/b"}

\* GetCallerIdentity: an error, a nil output, an output with a nil Arn, or an Arn.
StsOutcomes == {"err", "nilOutput", "nilArn"} \cup Arns

\* ---------------------------------------------------------------------------
\* newSession
\* ---------------------------------------------------------------------------

\* The region pinned on the aws.Config: only when the provider region is set.
ConfigRegionNoPin(region) == ""

ConfigRegion(region) == IF region # "" THEN region ELSE ""

\* session.NewSessionWithOptions: an explicit config region wins, otherwise the
\* region of the environment / shared config (possibly none).
SessionRegion(cfgRegion, env) == IF cfgRegion # "" THEN cfgRegion ELSE env

\* The region back-fill at the end of newSession: the new spec.Region and
\* whether newSession calls itself again.
Backfill(region, sRegion) ==
    IF region = ""
    THEN IF sRegion # ""
         THEN [Region |-> sRegion, recurse |-> FALSE]
         ELSE [Region |-> DefaultRegion, recurse |-> TRUE]
    ELSE [Region |-> region, recurse |-> FALSE]

\* New is called: provider and c are allocated, newSession(spec) is entered.
NewBegin(region, env, caching) ==
    /\ pc = "idle"
    /\ pc' = "newSession"
    /\ specRegion' = region
    /\ region0' = region
    /\ envRegion' = env
    /\ cacheEnv' = caching
    /\ UNCHANGED <<session, depth, cacheTouched, warned, Status, stsOut,
                   authResult, KubeProvider, newRet, newProvider>>
    /\ UNCHANGED notNew

\* One pass of newSession.  session.Must panics when the session cannot be
\* created (sessionOK = FALSE).
newSession(sessionOK) ==
    /\ pc = "newSession"
    /\ depth < MaxDepth
    /\ IF ~sessionOK
       THEN /\ pc' = "panic"
            /\ UNCHANGED <<specRegion, session, depth>>
       ELSE LET s == [Config |-> TRUE,
                      Region |-> SessionRegion(ConfigRegion(specRegion), envRegion),
                      Credentials |-> "live"]
                b == Backfill(specRegion, s.Region)
            IN  /\ specRegion' = b.Region
                /\ IF b.recurse
                   THEN /\ depth' = depth + 1
                        /\ pc' = "newSession"
                        /\ UNCHANGED session
                   ELSE /\ session' = s
                        /\ pc' = "cache"
                        /\ UNCHANGED depth
    /\ UNCHANGED <<region0, envRegion, cacheEnv, cacheTouched, warned, Status,
                   stsOut, authResult, KubeProvider, newRet, newProvider>>
    /\ UNCHANGED notNew

\* ---------------------------------------------------------------------------
\* New: credential cache, v2 config, checkAuth, KubeProvider
\* ---------------------------------------------------------------------------

\* The outcome of the cacheCredentials block of New.
\*   pathOK:     ekscreds.GetCacheFilePath succeeded
\*   providerOK: ekscreds.NewFileCacheProvider succeeded (lock acquired, file readable)
CacheBlock(caching, pathOK, providerOK) ==
    IF ~caching
    THEN [err |-> "", touched |-> FALSE, creds |-> "live", warned |-> FALSE]
    ELSE IF ~pathOK
         THEN [err |-> "errCacheFilePath", touched |-> TRUE, creds |-> "live",
               warned |-> FALSE]
         ELSE IF providerOK
              THEN [err |-> "", touched |-> TRUE, creds |-> "cached", warned |-> FALSE]
              ELSE [err |-> "", touched |-> TRUE, creds |-> "live", warned |-> TRUE]

NewCache(pathOK, providerOK) ==
    /\ pc = "cache"
    /\ LET r == IF cacheEnv /\ ~session.Config
                THEN [err |-> "errNilSessionConfig", touched |-> FALSE,
                      creds |-> "live", warned |-> FALSE]
                ELSE CacheBlock(cacheEnv, pathOK, providerOK)
       IN  /\ cacheTouched' = r.touched
           /\ warned' = r.warned
           /\ IF r.err # ""
              THEN /\ newRet' = r.err
                   /\ newProvider' = "nil"
                   /\ pc' = "done"
                   /\ UNCHANGED session
              ELSE /\ session' = [session EXCEPT !.Credentials = r.creds]
                   /\ pc' = "v2config"
                   /\ UNCHANGED <<newRet, newProvider>>
    /\ UNCHANGED <<specRegion, region0, envRegion, cacheEnv, depth, Status,
                   stsOut, authResult, KubeProvider>>
    /\ UNCHANGED notNew

\* provider.session, provider.cfn, newV2Config, c.Status and the v2 clients.
NewV2Config(cfgOK) ==
    /\ pc = "v2config"
    /\ IF ~cfgOK
       THEN /\ newRet' = "errV2Config"
            /\ newProvider' = "nil"
            /\ pc' = "done"
            /\ UNCHANGED Status
       ELSE /\ Status' = [set |-> TRUE, IAMRoleARN |-> "",
                       SessionCreds |-> session.Credentials]
            /\ pc' = "checkAuth"
            /\ UNCHANGED <<newRet, newProvider>>
    /\ UNCHANGED <<specRegion, region0, envRegion, cacheEnv, session, depth,
                   cacheTouched, warned, stsOut, authResult, KubeProvider>>
    /\ UNCHANGED notNew

\* checkAuth's verdict on the GetCallerIdentity response.
checkAuthLenient(out) ==
    IF out = "err"
    THEN [err |-> "errSTSAccess", arn |-> ""]
    ELSE [err |-> "", arn |-> IF out \in Arns THEN out ELSE ""]

checkAuthResult(out) ==
    IF out = "err"
    THEN [err |-> "errSTSAccess", arn |-> ""]
    ELSE IF out \in {"nilOutput", "nilArn"}
         THEN [err |-> "errUnexpectedSTSResponse", arn |-> ""]
         ELSE [err |-> "", arn |-> out]

\* checkAuth, and New's return when it fails.
checkAuth(out) ==
    /\ pc = "checkAuth"
    /\ stsOut' = out
    /\ LET r == checkAuthResult(out)
       IN  IF r.err # ""
           THEN /\ authResult' = "err"
                /\ newRet' = r.err
                /\ newProvider' = "nil"
                /\ pc' = "done"
                /\ UNCHANGED Status
           ELSE /\ authResult' = "ok"
                /\ Status' = [Status EXCEPT !.IAMRoleARN = r.arn]
                /\ pc' = "kubeProvider"
                /\ UNCHANGED <<newRet, newProvider>>
    /\ UNCHANGED <<specRegion, region0, envRegion, cacheEnv, session, depth,
                   cacheTouched, warned, KubeProvider>>
    /\ UNCHANGED notNew

\* The KubernetesProvider is built from c.Status.IAMRoleARN and New returns c.
NewKubeProvider ==
    /\ pc = "kubeProvider"
    /\ KubeProvider' = [set |-> TRUE, RoleARN |-> Status.IAMRoleARN]
    /\ newRet' = "ok"
    /\ newProvider' = "c"
    /\ pc' = "done"
    /\ UNCHANGED <<specRegion, region0, envRegion, cacheEnv, session, depth,
                   cacheTouched, warned, Status, stsOut, authResult>>
    /\ UNCHANGED notNew

InitNew ==
    /\ pc = "idle"
    /\ specRegion = ""
    /\ region0 = ""
    /\ envRegion = ""
    /\ cacheEnv = FALSE
    /\ session = NoSession
    /\ depth = 0
    /\ cacheTouched = FALSE
    /\ warned = FALSE
    /\ Status = NoStatus
    /\ stsOut = NoValue
    /\ authResult = "pending"
    /\ KubeProvider = NoKubeProvider
    /\ newRet = "none"
    /\ newProvider = "none"

NextNew ==
    \/ \E region \in MaybeRegion, env \in MaybeRegion, caching \in BOOLEAN :
          NewBegin(region, env, caching)
    \/ \E sessionOK \in BOOLEAN : newSession(sessionOK)
    \/ \E pathOK \in BOOLEAN, providerOK \in BOOLEAN : NewCache(pathOK, providerOK)
    \/ \E cfgOK \in BOOLEAN : NewV2Config(cfgOK)
    \/ \E out \in StsOutcomes : checkAuth(out)
    \/ NewKubeProvider


\* ---------------------------------------------------------------------------
\* ResolveAMI
\* ---------------------------------------------------------------------------

NodeImageResolverAuto == "auto"

NodeImageResolverAutoSSM == "auto-ssm"

\* Values ng.AMI can hold when ResolveAMI is called: the two resolver keywords,
\* unset, and a value that is neither (a literal image id).
AMIModes == {NodeImageResolverAuto, NodeImageResolverAutoSSM, "", "ami-0static"}

AMIIds == {"ami-0a", "ami-0b"}

\* A sub-resolver answers with an error, with no id, or with an id.
ResolverOutcomes == {"err", ""} \cup AMIIds

AMIFamilies == {"AmazonLinux2", "Ubuntu2004"}

InstanceTypes == {"m5.large", "g4dn.xlarge"}

Versions == {"1.23", "1.24"}

NoAMIIn == [region |-> "", version |-> "", ssm |-> "", auto |-> ""]

NoAMIErr == [region |-> "", version |-> "", instanceType |-> "", amiFamily |-> "",
             cause |-> "", value |-> ""]

\* The switch on ng.AMI: the sub-resolvers of the resolver that is built, in
\* the order they are handed to it; no resolver for any other value.
NewResolverAutoFirst(ami) ==
    IF ami = NodeImageResolverAuto THEN [valid |-> TRUE, chain |-> <<"auto">>]
    ELSE IF ami = NodeImageResolverAutoSSM THEN [valid |-> TRUE, chain |-> <<"ssm">>]
    ELSE IF ami = "" THEN [valid |-> TRUE, chain |-> <<"auto", "ssm">>]
    ELSE [valid |-> FALSE, chain |-> <<>>]

NewResolver(ami) ==
    IF ami = NodeImageResolverAuto THEN [valid |-> TRUE, chain |-> <<"auto">>]
    ELSE IF ami = NodeImageResolverAutoSSM THEN [valid |-> TRUE, chain |-> <<"ssm">>]
    ELSE IF ami = "" THEN [valid |-> TRUE, chain |-> <<"ssm", "auto">>]
    ELSE [valid |-> FALSE, chain |-> <<>>]

\* resolver.Resolve.  A single resolver gives its own answer.  The multi
\* resolver tries its resolvers in order: the first id wins; after an error or
\* an empty answer it falls back to the next one; when all have failed, the
\* chain fails the way its last resolver did.
RECURSIVE Resolve(_, _)
Resolve(chain, answers) ==
    IF chain = <<>>
    THEN [out |-> "", calls |-> <<>>]
    ELSE LET o == answers[Head(chain)]
         IN  IF o \in AMIIds \/ Len(chain) = 1
             THEN [out |-> o, calls |-> <<Head(chain)>>]
             ELSE LET rest == Resolve(Tail(chain), answers)
                  IN  [out |-> rest.out, calls |-> <<Head(chain)>> \o rest.calls]

\* What ResolveAMI does with the answer of resolver.Resolve: the value it
\* returns, the fields of the error, and ng.AMI afterwards.
ResolveAMIReturnUnchecked(ami, out, ctx) ==
    IF out = "err"
    THEN [ret |-> "errUnableToDetermineAMI", AMI |-> ami,
          err |-> [NoAMIErr EXCEPT !.cause = "resolver"]]
    ELSE [ret |-> "ok", AMI |-> out, err |-> NoAMIErr]

ResolveAMIReturnEagerWrite(ami, out, ctx) ==
    IF out = "err"
    THEN [ret |-> "errUnableToDetermineAMI", AMI |-> ami,
          err |-> [NoAMIErr EXCEPT !.cause = "resolver"]]
    ELSE IF out = ""
         THEN [ret |-> "ErrFailedResolution", AMI |-> out,
               err |-> [NoAMIErr EXCEPT !.region = ctx.region,
                                        !.version = ctx.version,
                                        !.instanceType = ctx.instanceType,
                                        !.amiFamily = ctx.amiFamily]]
         ELSE [ret |-> "ok", AMI |-> out, err |-> NoAMIErr]

ResolveAMIReturn(ami, out, ctx) ==
    IF out = "err"
    THEN [ret |-> "errUnableToDetermineAMI", AMI |-> ami,
          err |-> [NoAMIErr EXCEPT !.cause = "resolver"]]
    ELSE IF out = ""
         THEN [ret |-> "ErrFailedResolution", AMI |-> ami,
               err |-> [NoAMIErr EXCEPT !.region = ctx.region,
                                        !.version = ctx.version,
                                        !.instanceType = ctx.instanceType,
                                        !.amiFamily = ctx.amiFamily]]
         ELSE [ret |-> "ok", AMI |-> out, err |-> NoAMIErr]

\* A node pool as the caller hands it to ResolveAMI.
NewNodeGroup(ami, family, itype) ==
    /\ ng' = [AMI |-> ami, AMIFamily |-> family, InstanceType |-> itype]
    /\ amiBefore' = ami
    /\ amiIn' = NoAMIIn
    /\ amiCalls' = <<>>
    /\ amiOut' = ""
    /\ amiRet' = "none"
    /\ amiErr' = NoAMIErr
    /\ UNCHANGED notAMI

\* ResolveAMI(ctx, provider, version, np) with provider.Region() = region; ssm
\* and auto are the answers the SSM and the EC2 resolver give when asked.
ResolveAMI(region, version, ssm, auto) ==
    /\ amiBefore' = ng.AMI
    /\ amiIn' = [region |-> region, version |-> version, ssm |-> ssm, auto |-> auto]
    /\ LET resolver == NewResolver(ng.AMI)
       IN  IF ~resolver.valid
           THEN /\ amiRet' = "errInvalidAMI"
                /\ amiErr' = [NoAMIErr EXCEPT !.value = ng.AMI]
                /\ amiCalls' = <<>>
                /\ amiOut' = ""
                /\ UNCHANGED ng
           ELSE LET answers == [r \in {"ssm", "auto"} |->
                                   IF r = "ssm" THEN ssm ELSE auto]
                    res == Resolve(resolver.chain, answers)
                    ctx == [region |-> region, version |-> version,
                            instanceType |-> ng.InstanceType,
                            amiFamily |-> ng.AMIFamily]
                    r == ResolveAMIReturn(ng.AMI, res.out, ctx)
                IN  /\ amiCalls' = res.calls
                    /\ amiOut' = res.out
                    /\ amiRet' = r.ret
                    /\ amiErr' = r.err
                    /\ ng' = [ng EXCEPT !.AMI = r.AMI]
    /\ UNCHANGED notAMI

InitAMI ==
    /\ ng = [AMI |-> "", AMIFamily |-> "AmazonLinux2", InstanceType |-> "m5.large"]
    /\ amiBefore = ""
    /\ amiIn = NoAMIIn
    /\ amiCalls = <<>>
    /\ amiOut = ""
    /\ amiRet = "none"
    /\ amiErr = NoAMIErr

NextAMI ==
    \/ \E ami \in AMIModes, family \in AMIFamilies, itype \in InstanceTypes :
          NewNodeGroup(ami, family, itype)
    \/ \E region \in Regions, version \in Versions,
          ssm \in ResolverOutcomes, auto \in ResolverOutcomes :
          ResolveAMI(region, version, ssm, auto)


\* ---------------------------------------------------------------------------
\* SetAvailabilityZones
\* ---------------------------------------------------------------------------

MinRequiredAvailabilityZones == 2

\* Longest zone list handed in, or answered by discovery.
MaxZones == 3

Zones == {"us-west-2a", "us-west-2b"}

ZoneLists == UNION {[1..n -> Zones] : n \in 0..MaxZones}

\* az.GetAvailabilityZones answers with an error or with a zone list; the
\* caller does not constrain the list.
DiscoveryAnswers ==
    {[err |-> TRUE, zones |-> <<>>]} \cup {[err |-> FALSE, zones |-> z] : z \in ZoneLists}

NoDiscovery == [called |-> FALSE, err |-> FALSE, zones |-> <<>>]

\* SetAvailabilityZones(ctx, spec, given, ec2API, region): the value returned,
\* spec.AvailabilityZones afterwards, and whether discovery was called.
SetAvailabilityZonesNoMinimum(current, given, disc) ==
    IF Len(given) # 0
    THEN [ret |-> "ok", azs |-> given, discovered |-> FALSE, errZones |-> <<>>]
    ELSE IF Len(current) # 0
    THEN IF Len(current) < MinRequiredAvailabilityZones
         THEN [ret |-> "ErrTooFewAvailabilityZones", azs |-> current,
               discovered |-> FALSE, errZones |-> current]
         ELSE [ret |-> "ok", azs |-> current, discovered |-> FALSE, errZones |-> <<>>]
    ELSE IF disc.err
    THEN [ret |-> "errGettingAvailabilityZones", azs |-> current,
          discovered |-> TRUE, errZones |-> <<>>]
    ELSE [ret |-> "ok", azs |-> disc.zones, discovered |-> TRUE, errZones |-> <<>>]

SetAvailabilityZonesTrustExisting(current, given, disc) ==
    IF Len(given) # 0
    THEN IF Len(given) < MinRequiredAvailabilityZones
         THEN [ret |-> "ErrTooFewAvailabilityZones", azs |-> current,
               discovered |-> FALSE, errZones |-> given]
         ELSE [ret |-> "ok", azs |-> given, discovered |-> FALSE, errZones |-> <<>>]
    ELSE IF Len(current) # 0
    THEN [ret |-> "ok", azs |-> current, discovered |-> FALSE, errZones |-> <<>>]
    ELSE IF disc.err
    THEN [ret |-> "errGettingAvailabilityZones", azs |-> current,
          discovered |-> TRUE, errZones |-> <<>>]
    ELSE [ret |-> "ok", azs |-> disc.zones, discovered |-> TRUE, errZones |-> <<>>]

SetAvailabilityZonesAlwaysDiscover(current, given, disc) ==
    IF Len(given) # 0
    THEN IF Len(given) < MinRequiredAvailabilityZones
         THEN [ret |-> "ErrTooFewAvailabilityZones", azs |-> current,
               discovered |-> FALSE, errZones |-> given]
         ELSE [ret |-> "ok", azs |-> given, discovered |-> FALSE, errZones |-> <<>>]
    ELSE IF disc.err
    THEN [ret |-> "errGettingAvailabilityZones", azs |-> current,
          discovered |-> TRUE, errZones |-> <<>>]
    ELSE [ret |-> "ok", azs |-> disc.zones, discovered |-> TRUE, errZones |-> <<>>]

SetAvailabilityZonesResult(current, given, disc) ==
    IF Len(given) # 0
    THEN IF Len(given) < MinRequiredAvailabilityZones
         THEN [ret |-> "ErrTooFewAvailabilityZones", azs |-> current,
               discovered |-> FALSE, errZones |-> given]
         ELSE [ret |-> "ok", azs |-> given, discovered |-> FALSE, errZones |-> <<>>]
    ELSE IF Len(current) # 0
    THEN IF Len(current) < MinRequiredAvailabilityZones
         THEN [ret |-> "ErrTooFewAvailabilityZones", azs |-> current,
               discovered |-> FALSE, errZones |-> current]
         ELSE [ret |-> "ok", azs |-> current, discovered |-> FALSE, errZones |-> <<>>]
    ELSE IF disc.err
    THEN [ret |-> "errGettingAvailabilityZones", azs |-> current,
          discovered |-> TRUE, errZones |-> <<>>]
    ELSE [ret |-> "ok", azs |-> disc.zones, discovered |-> TRUE, errZones |-> <<>>]

\* One call on the cluster spec; disc is what discovery answers if it is asked.
SetAvailabilityZones(given, disc) ==
    /\ LET r == SetAvailabilityZonesResult(azs, given, disc)
       IN  /\ azs' = r.azs
           /\ azRet' = r.ret
           /\ azErrZones' = r.errZones
           /\ azDisc' = IF r.discovered
                        THEN [called |-> TRUE, err |-> disc.err, zones |-> disc.zones]
                        ELSE NoDiscovery
    /\ azBefore' = azs
    /\ azGiven' = given
    /\ UNCHANGED notAZ

InitAZ ==
    /\ azs = <<>>
    /\ azBefore = <<>>
    /\ azGiven = <<>>
    /\ azDisc = NoDiscovery
    /\ azRet = "none"
    /\ azErrZones = <<>>

NextAZ ==
    \E given \in ZoneLists, disc \in DiscoveryAnswers : SetAvailabilityZones(given, disc)

\* ---------------------------------------------------------------------------
\* ValidateLocalZones
\* ---------------------------------------------------------------------------

\* Longest local-zone list requested, or answered by the provider.
MaxLocalZones == 3

LocalZoneNames == {"us-west-2-lax-1a", "us-west-2a"}

ZoneTypes == {"local-zone", "availability-zone"}

LocalZoneLists == UNION {[1..n -> LocalZoneNames] : n \in 0..MaxLocalZones}

DescribedZones == [ZoneName : LocalZoneNames, ZoneType : ZoneTypes]

\* DescribeAvailabilityZones answers with an error or with a list of zones.
DescribeAnswers ==
    {[err |-> TRUE, zones |-> <<>>]}
    \cup {[err |-> FALSE, zones |-> z] :
            z \in UNION {[1..n -> DescribedZones] : n \in 0..MaxLocalZones}}

NoLZErr == [expected |-> 0, found |-> 0, zone |-> ""]

NonLocal(zones) == {i \in 1..Len(zones) : zones[i].ZoneType # "local-zone"}

\* The index of the first zone of the answer that is not a local zone.
FirstNonLocal(zones) == CHOOSE i \in NonLocal(zones) : \A j \in NonLocal(zones) : i <= j

\* ValidateLocalZones(ctx, ec2API, localZones, region): the value returned,
\* the fields of the error, and the localZones list afterwards.
ValidateLocalZonesNoTypeCheck(requested, output) ==
    IF output.err
    THEN [ret |-> "errDescribe", err |-> NoLZErr, localZones |-> requested]
    ELSE IF Len(output.zones) # Len(requested)
    THEN [ret |-> "errCount",
          err |-> [NoLZErr EXCEPT !.expected = Len(requested),
                                  !.found = Len(output.zones)],
          localZones |-> requested]
    ELSE [ret |-> "ok", err |-> NoLZErr, localZones |-> requested]

ValidateLocalZonesResult(requested, output) ==
    IF output.err
    THEN [ret |-> "errDescribe", err |-> NoLZErr, localZones |-> requested]
    ELSE IF Len(output.zones) # Len(requested)
    THEN [ret |-> "errCount",
          err |-> [NoLZErr EXCEPT !.expected = Len(requested),
                                  !.found = Len(output.zones)],
          localZones |-> requested]
    ELSE IF NonLocal(output.zones) # {}
    THEN [ret |-> "errNonLocalZone",
          err |-> [NoLZErr EXCEPT
                     !.zone = output.zones[FirstNonLocal(output.zones)].ZoneName],
          localZones |-> requested]
    ELSE [ret |-> "ok", err |-> NoLZErr, localZones |-> requested]

\* The caller's configuration names its local zones.
SetLocalZones(zones) ==
    /\ localZones' = zones
    /\ lzRequested' = <<>>
    /\ lzOutput' = [err |-> FALSE, zones |-> <<>>]
    /\ lzRet' = "none"
    /\ lzErr' = NoLZErr
    /\ UNCHANGED notLZ

ValidateLocalZones(output) ==
    /\ LET r == ValidateLocalZonesResult(localZones, output)
       IN  /\ lzRet' = r.ret
           /\ lzErr' = r.err
           /\ localZones' = r.localZones
    /\ lzRequested' = localZones
    /\ lzOutput' = output
    /\ UNCHANGED notLZ

InitLZ ==
    /\ localZones = <<>>
    /\ lzRequested = <<>>
    /\ lzOutput = [err |-> FALSE, zones |-> <<>>]
    /\ lzRet = "none"
    /\ lzErr = NoLZErr

NextLZ ==
    \/ \E zones \in LocalZoneLists : SetLocalZones(zones)
    \/ \E output \in DescribeAnswers : ValidateLocalZones(output)

Init == InitNew /\ InitAMI /\ InitAZ /\ InitLZ

SpecNew == Init /\ [][NextNew]_vars

SpecAMI == Init /\ [][NextAMI]_vars

SpecAZ == Init /\ [][NextAZ]_vars

SpecLZ == Init /\ [][NextLZ]_vars

\* ===========================================================================
\* Properties
\* ===========================================================================

\* ---- New (under SpecNew) --------------------------------------------------

\* C1: the KubeProvider is constructed only after checkAuth has returned
\* without error, from the ARN that STS returned; when the identity call
\* errors or its response lacks the ARN, New returns an error and no
\* ClusterProvider, and the KubeProvider is never constructed.
C1_KubeProviderAfterCheckAuth ==
    /\ (pc = "kubeProvider" \/ KubeProvider.set) =>
          /\ authResult = "ok"
          /\ stsOut \in Arns
          /\ Status.IAMRoleARN = stsOut
    /\ KubeProvider.set => KubeProvider.RoleARN = stsOut
    /\ newProvider = "c" => KubeProvider.set /\ newRet = "ok"
    /\ stsOut \in {"err", "nilOutput", "nilArn"} =>
          /\ authResult = "err"
          /\ pc = "done"
          /\ newRet = (IF stsOut = "err" THEN "errSTSAccess"
                                         ELSE "errUnexpectedSTSResponse")
          /\ newProvider = "nil"
          /\ ~KubeProvider.set

C1_Witness ==
    /\ KubeProvider.set
    /\ authResult = "ok"
    /\ KubeProvider.RoleARN = "arn:aws:iam::1:role/a"
    /\ newProvider = "c"

\* C2 as stated: with an empty region, newSession returns after at most one
\* re-entry a session whose region is the default region.
C2_EmptyRegionYieldsDefault ==
    (region0 = "" /\ session.Config) =>
        /\ depth <= 1
        /\ session.Region = DefaultRegion

\* C2 as amended: newSession re-enters itself at most once; with an empty
\* region it returns, without re-entry, a session with the region the SDK
\* resolved from the environment when there is one, and otherwise, after
\* exactly one re-entry, a session with the default region; spec.Region is
\* back-filled with the session's region.
C2_EmptyRegionBackfill ==
    /\ depth <= 1
    /\ (pc = "newSession" /\ depth = 1) => specRegion = DefaultRegion
    /\ (region0 = "" /\ session.Config) =>
          /\ specRegion = session.Region
          /\ IF envRegion # ""
             THEN session.Region = envRegion /\ depth = 0
             ELSE session.Region = DefaultRegion /\ depth = 1

C2_Witness ==
    /\ region0 = ""
    /\ envRegion = ""
    /\ session.Config
    /\ depth = 1
    /\ session.Region = DefaultRegion

\* C10: the credential cache is touched only when the environment switch is
\* set, and no failure of the cache makes New fail: New warns and goes on with
\* the live credentials.
C10_CacheNeverFatal ==
    /\ cacheTouched => cacheEnv
    /\ warned => session.Credentials = "live"
    /\ newRet \notin {"errCacheFilePath", "errNilSessionConfig"}

\* ---- ResolveAMI (under SpecAMI) -------------------------------------------

ResolveAMICalled == amiRet # "none"

BothResolversFail == amiIn.ssm \in {"err", ""} /\ amiIn.auto \in {"err", ""}

FailedResolutionOf(region, version, group) ==
    [NoAMIErr EXCEPT !.region = region, !.version = version,
                     !.instanceType = group.InstanceType,
                     !.amiFamily = group.AMIFamily]

C4_SSMFirstShortCircuit ==
    (ResolveAMICalled /\ amiBefore = "") =>
        /\ Len(amiCalls) >= 1
        /\ amiCalls[1] = "ssm"
        /\ amiIn.ssm \in AMIIds =>
              /\ amiCalls = <<"ssm">>
              /\ amiRet = "ok"
              /\ ng.AMI = amiIn.ssm
        /\ (\E i \in 1..Len(amiCalls) : amiCalls[i] = "auto") =>
              /\ amiCalls = <<"ssm", "auto">>
              /\ amiIn.ssm \in {"err", ""}

C4_Witness ==
    /\ amiBefore = ""
    /\ amiIn.ssm = "ami-0a"
    /\ amiIn.auto = "ami-0b"
    /\ amiCalls = <<"ssm">>
    /\ ng.AMI = "ami-0a"

\* C5: ResolveAMI changes ng.AMI only when it returns success, and then to the
\* non-empty resolved id; on every error return ng.AMI keeps its value; a mode
\* other than auto, auto-ssm or empty is rejected without asking a resolver.
C5_AMISetOnlyOnSuccess ==
    ResolveAMICalled =>
        /\ ng.AMI # amiBefore => amiRet = "ok"
        /\ amiRet = "ok" => ng.AMI \in AMIIds /\ ng.AMI = amiOut
        /\ amiRet # "ok" => ng.AMI = amiBefore
        /\ amiRet \in {"ok", "errInvalidAMI", "errUnableToDetermineAMI",
                       "ErrFailedResolution"}
        /\ amiRet = "errInvalidAMI" <=>
              amiBefore \notin {NodeImageResolverAuto, NodeImageResolverAutoSSM, ""}
        /\ amiRet = "errInvalidAMI" => amiCalls = <<>> /\ amiErr.value = amiBefore
        /\ amiRet = "errUnableToDetermineAMI" <=>
              (amiRet # "errInvalidAMI" /\ amiOut = "err")
        /\ amiRet = "ErrFailedResolution" <=>
              (amiRet # "errInvalidAMI" /\ amiOut = "")

C5_Witness ==
    /\ amiBefore = NodeImageResolverAutoSSM
    /\ amiIn.ssm = ""
    /\ amiRet = "ErrFailedResolution"
    /\ ng.AMI = NodeImageResolverAutoSSM

\* ---- SetAvailabilityZones (under SpecAZ) ----------------------------------

SetAvailabilityZonesCalled == azRet # "none"

\* C6: a non-empty explicit zone list shorter than the minimum is answered
\* with ErrTooFewAvailabilityZones, without a discovery call, and leaves
\* spec.AvailabilityZones as it was, whatever it was.
C6_TooFewExplicitZones ==
    (/\ SetAvailabilityZonesCalled
     /\ Len(azGiven) # 0
     /\ Len(azGiven) < MinRequiredAvailabilityZones) =>
        /\ azRet = "ErrTooFewAvailabilityZones"
        /\ azErrZones = azGiven
        /\ ~azDisc.called
        /\ azs = azBefore

C6_Witness ==
    /\ azRet = "ErrTooFewAvailabilityZones"
    /\ Len(azGiven) = 1
    /\ Len(azBefore) >= MinRequiredAvailabilityZones
    /\ azs = azBefore

\* C7 as stated: once spec.AvailabilityZones is non-empty, no later call
\* changes it.
C7_ZonesFixedOnceSet == [][azs # <<>> => azs' = azs]_vars

\* C7 as amended: once spec.AvailabilityZones is non-empty, a later call never
\* asks discovery and changes the zones only when it is given an explicit list
\* of at least the minimum length, which replaces them; a call with an empty
\* or too short explicit list leaves them as they are.
C7_ZonesFixedUnlessExplicit ==
    [][azs # <<>> =>
         /\ ~azDisc'.called
         /\ azs' # azs =>
               /\ Len(azGiven') >= MinRequiredAvailabilityZones
               /\ azs' = azGiven'
               /\ azRet' = "ok"]_vars

C7_Witness ==
    /\ azBefore # <<>>
    /\ azGiven = <<>>
    /\ azRet = "ok"
    /\ ~azDisc.called
    /\ azs = azBefore

\* C8 as stated: whenever a call returns success, spec.AvailabilityZones has
\* at least the minimum number of entries.
C8_MinimumAfterSuccess ==
    azRet = "ok" => Len(azs) >= MinRequiredAvailabilityZones

\* C8 as amended: whenever a call returns success, spec.AvailabilityZones has
\* at least the minimum number of entries, or it is, verbatim, the list that
\* this call's discovery answered for a spec that had no zones (a discovered
\* list is adopted without a length check).
C8_MinimumUnlessDiscovered ==
    azRet = "ok" =>
        \/ Len(azs) >= MinRequiredAvailabilityZones
        \/ /\ azDisc.called
           /\ ~azDisc.err
           /\ azGiven = <<>>
           /\ azBefore = <<>>
           /\ azs = azDisc.zones

C8_Witness ==
    /\ azRet = "ok"
    /\ azBefore # <<>>
    /\ Len(azBefore) < MinRequiredAvailabilityZones
    /\ azs = azGiven
    /\ Len(azs) >= MinRequiredAvailabilityZones

\* ---- ValidateLocalZones (under SpecLZ) ------------------------------------

AllLocal(zones) == \A i \in 1..Len(zones) : zones[i].ZoneType = "local-zone"

\* C9: ValidateLocalZones succeeds exactly when the query succeeds, as many
\* zones are returned as were requested and each returned zone is of type
\* "local-zone"; a count mismatch is reported with the expected and the found
\* count, a zone of another type with that zone's name; the requested list is
\* not modified.
C9_ValidateLocalZones ==
    lzRet # "none" =>
        /\ lzRet = "ok" <=>
              /\ ~lzOutput.err
              /\ Len(lzOutput.zones) = Len(lzRequested)
              /\ AllLocal(lzOutput.zones)
        /\ lzOutput.err => lzRet = "errDescribe"
        /\ (~lzOutput.err /\ Len(lzOutput.zones) # Len(lzRequested)) =>
              /\ lzRet = "errCount"
              /\ lzErr.expected = Len(lzRequested)
              /\ lzErr.found = Len(lzOutput.zones)
        /\ (/\ ~lzOutput.err
            /\ Len(lzOutput.zones) = Len(lzRequested)
            /\ ~AllLocal(lzOutput.zones)) =>
              /\ lzRet = "errNonLocalZone"
              /\ \E i \in 1..Len(lzOutput.zones) :
                    /\ lzOutput.zones[i].ZoneType # "local-zone"
                    /\ \A j \in 1..(i - 1) : lzOutput.zones[j].ZoneType = "local-zone"
                    /\ lzErr.zone = lzOutput.zones[i].ZoneName
        /\ localZones = lzRequested

C9_Witness ==
    /\ lzRet = "errNonLocalZone"
    /\ lzRequested = <<"us-west-2a">>
    /\ lzOutput.zones = <<[ZoneName |-> "us-west-2a", ZoneType |-> "availability-zone"]>>
    /\ lzErr.zone = "us-west-2a"

=============================================================================
